---- MODULE Spec2Model ----
(***************************************************************************)
(* A model of the notebook                                                 *)
(*   2b-Inverse_source_localization_MNE_dSPM_sLORETA.ipynb                 *)
(* as a state machine: the notebook's code cells, run top to bottom, are   *)
(* the actions; the notebook's global names are the state.  The mne calls  *)
(* the cells make are modelled by what they compute on a small recording:  *)
(* exact arithmetic on numbers of the form (n/d)*sqrt(r).                  *)
(***************************************************************************)
EXTENDS Integers, Sequences, FiniteSets, TLC

(***************************************************************************)
(* Exact numbers.  A value is [n, d, r] and stands for (n/d)*sqrt(r), kept *)
(* in lowest terms with r squarefree; zero is [0, 1, 1].  A sum of two     *)
(* values with different radicands is not of this form: NotOneSurd.        *)
(***************************************************************************)
Abs(a) == IF a < 0 THEN -a ELSE a

RECURSIVE GCD(_, _)
GCD(a, b) == IF b = 0 THEN a ELSE GCD(b, a % b)

\* the integer square root, by Newton's iteration from x >= sqrt(n)
RECURSIVE Newton(_, _)
Newton(n, x) == LET y == (x + (n \div x)) \div 2
                IN  IF y >= x THEN x ELSE Newton(n, y)

ISqrt(n) == IF n < 2 THEN n ELSE Newton(n, n)

\* the largest a with a*a dividing r: the factors k = 2, 3, ... are divided
\* out of r while k^3 <= r; what is left is then 1, a prime, the square of a
\* prime or a product of two primes
RECURSIVE SqPartUp(_, _)
SqPartUp(r, k) ==
    IF k * k * k > r
    THEN IF ISqrt(r) * ISqrt(r) = r THEN ISqrt(r) ELSE 1
    ELSE IF r % (k * k) = 0 THEN k * SqPartUp(r \div (k * k), k)
    ELSE IF r % k = 0 THEN SqPartUp(r \div k, k + 1)
    ELSE SqPartUp(r, k + 1)

SqPart(r) == SqPartUp(r, 2)

Zero == [n |-> 0, d |-> 1, r |-> 1]
NotOneSurd == [n |-> 0, d |-> 0, r |-> 0]

\* (n/d)*sqrt(r) in lowest terms, for d > 0 and r squarefree
Norm(n, d, r) ==
    IF n = 0 THEN Zero
    ELSE LET g == GCD(Abs(n), d)
         IN  [n |-> n \div g, d |-> d \div g, r |-> r]

Rat(n, d) == IF d < 0 THEN Norm(-n, -d, 1) ELSE Norm(n, d, 1)
Int2(n) == [n |-> n, d |-> 1, r |-> 1]

\* sqrt(a) sqrt(b) = g sqrt((a/g)(b/g)) with g = gcd(a, b), a and b squarefree;
\* the common factors of a numerator and a denominator are divided out before
\* the products are taken
Mul(x, y) == IF x.d = 0 \/ y.d = 0 THEN NotOneSurd
             ELSE IF x.n = 0 \/ y.n = 0 THEN Zero
             ELSE LET g  == GCD(x.r, y.r)
                      a  == GCD(Abs(x.n), y.d)
                      b  == GCD(Abs(y.n), x.d)
                      d1 == x.d \div b
                      d2 == y.d \div a
                      h  == GCD(g, d1)
                      k  == GCD(g \div h, d2)
                  IN  Norm((x.n \div a) * (y.n \div b) * ((g \div h) \div k),
                           (d1 \div h) * (d2 \div k),
                           (x.r \div g) * (y.r \div g))

\* the sum over the least common denominator
Add(x, y) == IF x.d = 0 \/ y.d = 0 THEN NotOneSurd
             ELSE IF x.n = 0 THEN y
             ELSE IF y.n = 0 THEN x
             ELSE IF x.r = y.r
             THEN LET g == GCD(x.d, y.d)
                  IN  Norm(x.n * (y.d \div g) + y.n * (x.d \div g),
                           (x.d \div g) * y.d, x.r)
             ELSE NotOneSurd

Neg(x) == [x EXCEPT !.n = -x.n]
Sub(x, y) == Add(x, Neg(y))

\* 1/x for x # 0:  d/(n sqrt r) = d sqrt(r) / (n r)
Inv(x) == IF x.n < 0 THEN Norm(-x.d, (-x.n) * x.r, x.r)
          ELSE Norm(x.d, x.n * x.r, x.r)

\* x / y for y # 0:  (n1 d2 / (d1 n2 r2')) sqrt(r1' r2') with g = gcd(r1, r2),
\* r1' = r1/g, r2' = r2/g, common factors divided out before the products
Div(x, y) == IF x.d = 0 \/ y.d = 0 THEN NotOneSurd
             ELSE IF x.n = 0 THEN Zero
             ELSE LET g  == GCD(x.r, y.r)
                      a  == GCD(Abs(x.n), Abs(y.n))
                      b  == GCD(x.d, y.d)
                      n1 == (IF y.n < 0 THEN -x.n ELSE x.n) \div a
                      n2 == Abs(y.n) \div a
                      c  == GCD(Abs(n1), y.r \div g)
                  IN  Norm((n1 \div c) * (y.d \div b),
                           (x.d \div b) * n2 * ((y.r \div g) \div c),
                           (x.r \div g) * (y.r \div g))

\* sqrt of a rational n/d >= 0 in lowest terms: with n = a^2 p and d = b^2 q
\* (p, q squarefree), sqrt(n/d) = a sqrt(p q) / (b q)
Sqrt(q) == IF q.n = 0 THEN Zero
           ELSE LET a == SqPart(q.n)
                    b == SqPart(q.d)
                    p == q.n \div (a * a)
                    m == q.d \div (b * b)
                IN  Norm(a, b * m, p * m)

(***************************************************************************)
(* Vectors and matrices (sequences of rows) of exact numbers.              *)
(***************************************************************************)
RECURSIVE SumSeq(_)
SumSeq(s) == IF s = <<>> THEN Zero ELSE Add(Head(s), SumSeq(Tail(s)))

NCols(m) == IF m = <<>> THEN 0 ELSE Len(m[1])

Range(s) == {s[i] : i \in 1..Len(s)}

\* the sequence s with its elements computed (the same value as s)
Tuple(s) == s \o <<>>

\* the position of x in s (x occurs in s)
IndexOf(s, x) == CHOOSE i \in 1..Len(s) : s[i] = x

\* a finite set of integers as an ascending sequence
RECURSIVE SortedSeq(_)
SortedSeq(S) == IF S = {} THEN <<>>
                ELSE LET m == CHOOSE x \in S : \A y \in S : x <= y
                     IN  <<m>> \o SortedSeq(S \ {m})

(***************************************************************************)
(* The recording (sample_audvis_filt-0-40_raw.fif), scaled down: a few     *)
(* channels of each type, a sampling rate of 10 Hz, a handful of triggers. *)
(* Signal values are small integers in units in which the rejection        *)
(* thresholds of the notebook are the integers below.                      *)
(***************************************************************************)
MaxSeed == 2
NEvents == 3

RawChNames == <<"MEG 0113", "MEG 2443", "MEG 0111", "EEG 053", "EOG 061", "STI 014">>

ChType(name) == CASE name \in {"MEG 0113", "MEG 2443"} -> "grad"
                  [] name = "MEG 0111" -> "mag"
                  [] name = "EEG 053" -> "eeg"
                  [] name = "EOG 061" -> "eog"
                  [] OTHER -> "stim"

IsMeg(name) == ChType(name) \in {"grad", "mag"}

SfreqSet == {10}

\* a recording: the seed of its MEG signal, the trigger value of each event,
\* and the events during which the subject blinks (none, or the first)
Datasets == { [seed |-> sd, ids |-> f, blink |-> b, sfreq |-> sf] :
                sd \in 1..MaxSeed, f \in [1..NEvents -> {1, 2}],
                b \in {{}, {1}}, sf \in SfreqSet }

\* the sample at which event k's trigger pulse starts
EventSample(ds, k) == ds.sfreq + 2 + (k - 1) * ds.sfreq

\* the length of the recording: 16 s
NTimes(ds) == 16 * ds.sfreq

RawVal(ds, name, t) ==
    CASE ChType(name) = "stim" ->
           IF \E k \in 1..NEvents : t \in {EventSample(ds, k), EventSample(ds, k) + 1}
           THEN ds.ids[CHOOSE k \in 1..NEvents :
                         t \in {EventSample(ds, k), EventSample(ds, k) + 1}]
           ELSE 0
      [] ChType(name) = "eog" ->
           IF \E k \in ds.blink : t = EventSample(ds, k) + 1 THEN 4 ELSE t % 2
      [] OTHER ->
           LET ci == IndexOf(RawChNames, name)
           IN  (((ds.seed + ci) * t + ci + (t \div 7)) % 3) - 1

(***************************************************************************)
(* Events and epochs.                                                      *)
(***************************************************************************)
\* mne.find_events(raw, stim_channel='STI 014'): the onsets of the trigger
\* pulses, as <<sample, trigger value>>, in time order
FindEvents(ds) ==
    LET on == { t \in 1..(NTimes(ds) - 1) :
                  /\ RawVal(ds, "STI 014", t) # 0
                  /\ RawVal(ds, "STI 014", t - 1) = 0 }
        ts == SortedSeq(on)
    IN  [k \in 1..Len(ts) |-> <<ts[k], RawVal(ds, "STI 014", ts[k])>>]

EventId == 1
TminTenths == -2
TmaxTenths == 5
Bads == {"MEG 2443", "EEG 053"}
RejectGrad == 4
RejectMag == 4
RejectEog == 3

\* a time in tenths of a second as a sample offset
TimeIdx(tenths, sfreq) == (tenths * sfreq) \div 10

\* mne.pick_types(info, meg, eeg, eog, exclude='bads'): positions, in order
PickTypes(chs, meg, eeg, eog, bads) ==
    SortedSeq({ i \in 1..Len(chs) :
                  /\ chs[i] \notin bads
                  /\ \/ meg /\ IsMeg(chs[i])
                     \/ eeg /\ ChType(chs[i]) = "eeg"
                     \/ eog /\ ChType(chs[i]) = "eog" })

Names(chs, picks) == [k \in 1..Len(picks) |-> chs[picks[k]]]

MaxOf(S) == CHOOSE x \in S : \A y \in S : y <= x
MinOf(S) == CHOOSE x \in S : \A y \in S : x <= y

RejectThreshold(name) == CASE ChType(name) = "grad" -> RejectGrad
                           [] ChType(name) = "mag" -> RejectMag
                           [] ChType(name) = "eog" -> RejectEog

\* the peak-to-peak amplitude of some channel of the window at sample s exceeds
\* its type's threshold
IsBadEpoch(ds, names, s, lo, hi) ==
    \E c \in Range(names) :
       LET vals == { RawVal(ds, c, s + o) : o \in lo..hi }
       IN  MaxOf(vals) - MinOf(vals) > RejectThreshold(c)

\* one epoch's data, baseline (None, 0) removed: each channel minus its mean
\* over the samples up to the trigger
EpochData(ds, names, s, lo, hi) ==
    [ c \in 1..Len(names) |->
        LET base == SumSeq([o \in 1..(1 - lo) |-> Int2(RawVal(ds, names[c], s + lo + o - 1))])
            mean == Mul(base, Rat(1, 1 - lo))
        IN  [ t \in 1..(hi - lo + 1) |->
                Sub(Int2(RawVal(ds, names[c], s + lo + t - 1)), mean) ] ]

\* mne.Epochs(raw, events, event_id, tmin, tmax, picks=picks, baseline=(None, 0),
\* reject=reject) followed by drop_bad()
MakeEpochs(ds, evs) ==
    LET picks == PickTypes(RawChNames, TRUE, FALSE, TRUE, Bads)
        names == Names(RawChNames, picks)
        lo    == TimeIdx(TminTenths, ds.sfreq)
        hi    == TimeIdx(TmaxTenths, ds.sfreq)
        keep  == SortedSeq({ k \in 1..Len(evs) :
                    /\ evs[k][2] = EventId
                    /\ evs[k][1] + lo >= 0
                    /\ evs[k][1] + hi < NTimes(ds)
                    /\ ~IsBadEpoch(ds, names, evs[k][1], lo, hi) })
    IN  [ ch_names  |-> names,
          selection |-> keep,
          data      |-> [ i \in 1..Len(keep) |->
                            EpochData(ds, names, evs[keep[i]][1], lo, hi) ],
          first     |-> lo,
          sfreq     |-> ds.sfreq ]

\* the mean over a non-empty sequence of equally shaped matrices
MeanMatrix(ms) ==
    [ c \in 1..Len(ms[1]) |->
        [ t \in 1..Len(ms[1][c]) |->
            Mul(SumSeq([i \in 1..Len(ms) |-> ms[i][c][t]]), Rat(1, Len(ms))) ] ]

\* epochs.average(): the data channels only (no EOG), nave = number of epochs
Average(ep) ==
    LET picks == PickTypes(ep.ch_names, TRUE, TRUE, FALSE, {})
        sub   == [ i \in 1..Len(ep.data) |-> [ k \in 1..Len(picks) |-> ep.data[i][picks[k]] ] ]
    IN  [ ch_names |-> Names(ep.ch_names, picks),
          data     |-> MeanMatrix(sub),
          nave     |-> Len(ep.data),
          first    |-> ep.first,
          sfreq    |-> ep.sfreq ]

\* mne.compute_covariance(epochs, tmax=0., method=['shrunk', 'empirical']):
\* estimated on the data channels from the samples up to the trigger; which
\* estimator wins the model selection is not decided here (est)
ComputeCovariance(ep, est) ==
    LET picks == PickTypes(ep.ch_names, TRUE, TRUE, FALSE, {})
    IN  [ names     |-> Names(ep.ch_names, picks),
          n_samples |-> Len(ep.data) * (1 - ep.first),
          method    |-> est ]

(***************************************************************************)
(* The forward solution and the inverse operator.                          *)
(*                                                                         *)
(* The cortical surface has the vertices 1..NVert; the source space of the *)
(* forward solution is a subset of them, each source with three            *)
(* orientation components (surf_ori=True: the third is the normal).        *)
(***************************************************************************)
NVert == 4

SrcChoices == { (1..NVert) \ {v} : v \in {1, NVert} }
LabelChoices == { {1, 2}, {2, NVert} }

\* the gain of orientation component o of the source at vertex v on a channel
GainVal(name, v, o) ==
    LET ci == IndexOf(RawChNames, name)
    IN  (((ci + 2 * v + o) * (o + v)) % 5) - 2

\* read_forward_solution + convert_forward_solution(surf_ori=True) +
\* pick_types_forward(meg=True, eeg=False): the file holds the MEG and EEG
\* channels, the pick keeps the MEG ones
ReadForward(vertno) ==
    LET chs == Names(RawChNames, PickTypes(RawChNames, TRUE, TRUE, FALSE, {}))
    IN  [ ch_names |-> Names(chs, PickTypes(chs, TRUE, FALSE, FALSE, {})),
          vertno   |-> SortedSeq(vertno),
          surf_ori |-> TRUE ]

Loose == 2
Depth == 8

\* a faulty variant: three components whatever loose
NOriAlways3(loose) == 3

\* one orientation component per source when loose = 0 (fixed orientation),
\* three otherwise
NOri(loose) == IF loose = 0 THEN 1 ELSE 3

\* the components <<vertex, orientation>> of the operator, source by source
Comps(vertno, n_ori) ==
    [ c \in 1..(Len(vertno) * n_ori) |->
        <<vertno[((c - 1) \div n_ori) + 1],
          IF n_ori = 1 THEN 3 ELSE ((c - 1) % n_ori) + 1>> ]

\* make_inverse_operator(info, fwd, noise_cov, loose, depth), loose and depth
\* in tenths.  The operator works on the channels common to info, fwd and
\* noise_cov that are not bad.  Its numerical factors (whitener, singular
\* values, eigen fields and leads) stand for the decomposition of the
\* whitened gain matrix; they depend on the covariance estimate.
MakeInverseOperator(info_chs, bads, fw, cov, loose, depth) ==
    LET names == Names(info_chs,
                   SortedSeq({ i \in 1..Len(info_chs) :
                                 /\ info_chs[i] \in Range(fw.ch_names)
                                 /\ info_chs[i] \in Range(cov.names)
                                 /\ info_chs[i] \notin bads }))
        nch   == Len(names)
        var   == IF cov.method = "shrunk" THEN 1 ELSE 2
        n_ori == NOri(loose)
        comps == Comps(fw.vertno, n_ori)
    IN  [ ch_names     |-> names,
          vertno       |-> fw.vertno,
          n_ori        |-> n_ori,
          comps        |-> comps,
          nave         |-> 1,
          loose        |-> loose,
          depth        |-> depth,
          noise_cov    |-> cov,
          whitener     |-> [ i \in 1..nch |-> [ j \in 1..nch |->
                               IF i = j THEN Int2(IF i = 1 THEN var ELSE 1) ELSE Zero ] ],
          sing         |-> [ k \in 1..nch |-> IF var = 1 THEN Rat(1, 3) ELSE Int2(1) ],
          eigen_fields |-> [ k \in 1..nch |-> [ j \in 1..nch |->
                               IF (var = 1 /\ j = k) \/ (var = 2 /\ j = nch + 1 - k)
                               THEN Int2(1) ELSE Zero ] ],
          eigen_leads  |-> [ c \in 1..Len(comps) |-> [ k \in 1..nch |->
                               Int2(GainVal(names[k], comps[c][1], comps[c][2])) ] ],
          source_cov   |-> [ c \in 1..Len(comps) |->
                               Mul(IF comps[c][2] = 3 THEN Int2(1) ELSE Rat(loose, 10),
                                   IF depth = 0 \/ comps[c][1] % 2 = 0 THEN Int2(1)
                                   ELSE Rat(1, 4)) ] ]

(***************************************************************************)
(* Applying the operator (mne.minimum_norm.apply_inverse and friends).     *)
(***************************************************************************)
Methods == {"MNE", "dSPM", "sLORETA"}
PickOris == {"None", "normal", "vector"}

\* the regularised inverse of a singular value: s / (s^2 + lambda2)
RegInv(s, lam) == Mul(s, Inv(Add(Mul(s, s), lam)))

\* a faulty variant: the squared ratio
NaveScaleLinear(inv_nave, nave) == Rat(inv_nave * inv_nave, nave * nave)

\* the factor by which nave rescales the noise: the operator's own nave over
\* the caller's
NaveScale(inv_nave, nave) == Rat(inv_nave, nave)

\* the squared noise normalisation of the source at position l: the summed
\* squared rows of the (prior-weighted leads x noise weight) of its components
NoiseNorm2(inv, source_cov, reginv, lam, method, l) ==
    SumSeq([ i \in 1..inv.n_ori |->
      LET c == (l - 1) * inv.n_ori + i
      IN  Mul(source_cov[c],
              SumSeq([ k \in 1..Len(inv.sing) |->
                 LET w2 == IF method = "sLORETA"
                           THEN Mul(Mul(reginv[k], reginv[k]),
                                    Add(Int2(1), Mul(Mul(inv.sing[k], inv.sing[k]), Inv(lam))))
                           ELSE Mul(reginv[k], reginv[k])
                 IN  Mul(Mul(inv.eigen_leads[c][k], inv.eigen_leads[c][k]), w2) ])) ])

\* prepare_inverse_operator(orig, nave, lambda2, method): a copy of the
\* operator scaled for nave, with the regularised inverse and the noise
\* normalisation of every source; orig is not changed
PrepareInverseOperator(inv, nave, lam, method) ==
    LET scale  == NaveScale(inv.nave, nave)
        scov   == Tuple([ c \in 1..Len(inv.source_cov) |-> Mul(scale, inv.source_cov[c]) ])
        reginv == Tuple([ k \in 1..Len(inv.sing) |-> RegInv(inv.sing[k], lam) ])
    IN  [ op        |-> [ inv EXCEPT
                            !.nave = nave,
                            !.source_cov = scov,
                            !.whitener = Tuple([ i \in 1..Len(inv.whitener) |->
                                           Tuple([ j \in 1..Len(inv.whitener) |->
                                             Mul(Inv(Sqrt(scale)), inv.whitener[i][j]) ]) ]) ],
          reginv    |-> reginv,
          noisenorm |-> Tuple([ l \in 1..Len(inv.vertno) |->
                            IF method = "MNE" THEN Int2(1)
                            ELSE Inv(Sqrt(NoiseNorm2(inv, scov, reginv, lam, method, l))) ]) ]

Failure(e) == [ ok |-> FALSE, err |-> e, vertices |-> <<>>, data |-> <<>>,
                first |-> 0, sfreq |-> 0 ]

NoLabel == [ on |-> FALSE, vertices |-> {} ]
InLabel(vs) == [ on |-> TRUE, vertices |-> vs ]

\* a faulty variant: the label is ignored
LabelSelAll(vertno, restrict) == SortedSeq(1..Len(vertno))

\* the source positions an estimate is restricted to: all of them, or those
\* whose vertex belongs to the label, in source-space order
LabelSel(vertno, restrict) ==
    SortedSeq({ l \in 1..Len(vertno) : ~restrict.on \/ vertno[l] \in restrict.vertices })

\* a faulty variant: the noise normalisation indexed by the time sample
SourceRowNormPerSample(x, inv, noisenorm, l, pick_ori, ntimes) ==
    [ t \in 1..ntimes |->
        LET v == IF inv.n_ori = 3 /\ pick_ori = "None"
                 THEN Sqrt(SumSeq([ o \in 1..3 |->
                         Mul(x[(l - 1) * 3 + o][t], x[(l - 1) * 3 + o][t]) ]))
                 ELSE x[l * inv.n_ori][t]
        IN  Mul(v, noisenorm[((t - 1) % Len(noisenorm)) + 1]) ]

\* the time course of one source: the value of one component, or the length
\* of the vector of its three components, times the noise normalisation of
\* the source
SourceRow(x, inv, noisenorm, l, pick_ori, ntimes) ==
    [ t \in 1..ntimes |->
        LET v == IF inv.n_ori = 3 /\ pick_ori = "None"
                 THEN Sqrt(SumSeq([ o \in 1..3 |->
                         Mul(x[(l - 1) * 3 + o][t], x[(l - 1) * 3 + o][t]) ]))
                 ELSE x[l * inv.n_ori][t]
        IN  Mul(v, noisenorm[l]) ]

\* a faulty variant: the data must have the operator's channels and no other
ChannelsOkStrict(inv_names, data_names) == inv_names = data_names

\* the channel check of an application: the operator's channels are looked up
\* in the data by name, so the data may carry more channels, in any order
ChannelsOk(inv_names, data_names) == Range(inv_names) \subseteq Range(data_names)

\* _apply_inverse: select the operator's channels from the data by name,
\* assemble the kernel (prior x leads x regularised inverse x fields x
\* whitener) of the sources wanted, apply it to the data, pool the
\* orientations, normalise
ApplyCore(inv, data_names, data, first, sfreq, lam, method, pick_ori, nave, restrict) ==
    IF method \notin Methods \/ pick_ori \notin PickOris
    THEN Failure("ValueError: method or pick_ori")
    ELSE IF ~ChannelsOk(inv.ch_names, data_names)
    THEN Failure("ValueError: channel not present in the data")
    ELSE IF pick_ori \in {"normal", "vector"} /\ inv.n_ori # 3
    THEN Failure("RuntimeError: fixed orientation")
    ELSE
      LET P      == PrepareInverseOperator(inv, nave, lam, method)
          nch    == Len(inv.ch_names)
          sel    == [ j \in 1..nch |-> IndexOf(data_names, inv.ch_names[j]) ]
          ntimes == NCols(data)
          locs   == LabelSel(inv.vertno, restrict)
          white  == Tuple([ k \in 1..nch |-> Tuple([ j \in 1..nch |->
                        SumSeq([ i \in 1..nch |->
                           Mul(inv.eigen_fields[k][i], P.op.whitener[i][j]) ]) ]) ])
          K      == Tuple([ c \in 1..Len(inv.comps) |-> Tuple([ j \in 1..nch |->
                        Mul(Sqrt(P.op.source_cov[c]),
                            SumSeq([ k \in 1..nch |->
                               Mul(Mul(inv.eigen_leads[c][k], P.reginv[k]), white[k][j]) ])) ]) ])
          x      == [ c \in 1..Len(inv.comps) |-> [ t \in 1..ntimes |->
                        SumSeq([ j \in 1..nch |-> Mul(K[c][j], data[sel[j]][t]) ]) ] ]
      IN  [ ok       |-> TRUE,
            err      |-> "",
            vertices |-> [ i \in 1..Len(locs) |-> inv.vertno[locs[i]] ],
            data     |-> IF pick_ori = "vector" /\ inv.n_ori = 3
                         THEN [ r \in 1..(3 * Len(locs)) |->
                                  LET l == locs[((r - 1) \div 3) + 1]
                                      c == (l - 1) * 3 + ((r - 1) % 3) + 1
                                  IN  [ t \in 1..ntimes |-> Mul(x[c][t], P.noisenorm[l]) ] ]
                         ELSE [ i \in 1..Len(locs) |->
                                  SourceRow(x, inv, P.noisenorm, locs[i], pick_ori, ntimes) ],
            first    |-> first,
            sfreq    |-> sfreq ]

\* apply_inverse(evoked, inverse_operator, lambda2, method, pick_ori): nave is
\* the evoked response's
ApplyInverse(ev, inv, lam, method, pick_ori) ==
    ApplyCore(inv, ev.ch_names, ev.data, ev.first, ev.sfreq, lam, method, pick_ori,
              ev.nave, NoLabel)

\* the end of a sample range: a stop past the end of the recording is
\* brought back to its length
ClipStop(ds, stop) == IF stop > NTimes(ds) THEN NTimes(ds) ELSE stop

\* a faulty variant: the sample at stop included
RawSegmentInclusive(ds, names, start, stop) ==
    [ c \in 1..Len(names) |->
        [ t \in 1..(ClipStop(ds, stop) - start + 1) |->
            Int2(RawVal(ds, names[c], start + t - 1)) ] ]

\* raw[sel, start:stop]: the samples start, ..., stop - 1 of the channels
RawSegment(ds, names, start, stop) ==
    [ c \in 1..Len(names) |->
        [ t \in 1..(ClipStop(ds, stop) - start) |->
            Int2(RawVal(ds, names[c], start + t - 1)) ] ]

\* a range without samples is refused ('No data in this range')
EmptyRange(ds, start, stop) == start >= ClipStop(ds, stop)

\* apply_inverse_raw(raw, inverse_operator, lambda2, method, label, start, stop):
\* pick_ori and nave keep their defaults, None and 1
ApplyInverseRaw(ds, inv, lam, method, restrict, start, stop) ==
    IF EmptyRange(ds, start, stop) THEN Failure("ValueError: No data in this range")
    ELSE ApplyCore(inv, RawChNames, RawSegment(ds, RawChNames, start, stop),
                   start, ds.sfreq, lam, method, "None", 1, restrict)

\* one trial of apply_inverse_epochs(epochs, inverse_operator, lambda2, method,
\* label, pick_ori, nave)
ApplyTrial(ep, i, inv, lam, method, restrict, pick_ori, nave) ==
    ApplyCore(inv, ep.ch_names, ep.data[i], ep.first, ep.sfreq, lam, method,
              pick_ori, nave, restrict)

\* raw.time_as_index: whole seconds as a sample index
TimeAsIndex(ds, secs) == secs * ds.sfreq

\* stc.in_label(label): the rows of the estimate whose vertex is in the label
StcInLabel(st, vs) ==
    LET rows == SortedSeq({ i \in 1..Len(st.vertices) : st.vertices[i] \in vs })
    IN  [ st EXCEPT !.vertices = [ i \in 1..Len(rows) |-> st.vertices[rows[i]] ],
                    !.data     = [ i \in 1..Len(rows) |-> st.data[rows[i]] ] ]

\* np.sum(stcs) / len(stcs): the element-wise mean of the trials' estimates
MeanStc(sts) == [ sts[1] EXCEPT !.data = MeanMatrix([ i \in 1..Len(sts) |-> sts[i].data ]) ]

\* mne.label_sign_flip(label, src): one sign per label vertex of the source
\* space; the sign stands for the side of the label's mean normal the
\* vertex's normal lies on
LabelSignFlip(vs, vertno) ==
    LET sel == SortedSeq({ l \in 1..Len(vertno) : vertno[l] \in vs })
    IN  [ i \in 1..Len(sel) |-> IF vertno[sel[i]] % 2 = 0 THEN -1 ELSE 1 ]

\* a sum of values with different radicands, as the set of its terms
AddTerm(S, x) ==
    IF x.n = 0 THEN S
    ELSE IF \E y \in S : y.r = x.r
    THEN LET y == CHOOSE y \in S : y.r = x.r
             z == Add(y, x)
         IN  (S \ {y}) \cup (IF z.n = 0 THEN {} ELSE {z})
    ELSE S \cup {x}

RECURSIVE TermSum(_)
TermSum(s) == IF s = <<>> THEN {} ELSE AddTerm(TermSum(Tail(s)), Head(s))

\* np.mean(w[:, np.newaxis] * data, axis=0): per time sample, the mean over
\* the rows of the matrix, each row weighted by its (integer) w
RowMean(data, w) ==
    [ t \in 1..NCols(data) |->
        { Mul(Rat(1, Len(data)), x) :
            x \in TermSum([ i \in 1..Len(data) |-> Mul(Int2(w[i]), data[i][t]) ]) } ]

(***************************************************************************)
(* The notebook.  Its code cells run top to bottom (Run All); a cell that  *)
(* reads a name no earlier cell has bound stops the run with a NameError.  *)
(* Cells that only print or plot bind nothing the later cells read and are *)
(* left out.                                                               *)
(***************************************************************************)
VARIABLES pc, error, bound, calls,
          raw, events, epochs, evoked,
          noise_cov, fwd, inverse_operator,
          stc, stc_fsaverage, files,
          label,
          stcs, running, stc_evoked, stc_evoked_label, mean_stc,
          flip, label_mean, label_mean_flip, label_mean_evoked,
          call

ctl   == <<pc, error, bound, calls>>
sens  == <<raw, events, epochs, evoked>>
model == <<noise_cov, fwd>>
est   == <<stc, stc_fsaverage, files>>
trial == <<stcs, running, stc_evoked, stc_evoked_label, mean_stc>>
means == <<flip, label_mean, label_mean_flip, label_mean_evoked>>
eng   == <<call>>
vars  == <<ctl, sens, model, inverse_operator, est, label, trial, means, eng>>

\* a faulty variant: the evoked response is inverted before the operator is made
CellOrderApplyFirst ==
    << "read_raw", "find_events", "epochs", "covariance", "evoked",
       "apply_evoked", "make_inverse", "save_stc", "morph", "read_label",
       "apply_raw", "apply_epochs", "label_means" >>

\* the code cells in notebook order
CellOrder ==
    << "read_raw", "find_events", "epochs", "covariance", "evoked",
       "make_inverse", "apply_evoked", "save_stc", "morph", "read_label",
       "apply_raw", "apply_epochs", "label_means" >>

Snr == 3
Method == "dSPM"
Lambda2 == Rat(1, Snr * Snr)
RawStartSec == 0
RawStopSec == 15

NoRaw      == [seed |-> 0, ids |-> <<>>, blink |-> {}, sfreq |-> 0]
NoEpochs   == [ch_names |-> <<>>, selection |-> <<>>, data |-> <<>>, first |-> 0, sfreq |-> 0]
NoEvoked   == [ch_names |-> <<>>, data |-> <<>>, nave |-> 0, first |-> 0, sfreq |-> 0]
NoCov      == [names |-> <<>>, n_samples |-> 0, method |-> ""]
NoFwd      == [ch_names |-> <<>>, vertno |-> <<>>, surf_ori |-> FALSE]
NoOperator == [ch_names |-> <<>>, vertno |-> <<>>, n_ori |-> 0, nave |-> 0]
NoStc      == Failure("unbound")
Pending    == Failure("pending")
NoCall     == [fn |-> "", data_chs |-> <<>>, method |-> "", pick_ori |-> "", lam |-> Zero,
               nave |-> 0, start |-> 0, stop |-> 0, restrict |-> NoLabel, trial |-> 0,
               out |-> NoStc]

Init ==
    /\ pc = 1 /\ error = "" /\ bound = {} /\ calls = <<>>
    /\ raw = NoRaw /\ events = <<>> /\ epochs = NoEpochs /\ evoked = NoEvoked
    /\ noise_cov = NoCov /\ fwd = NoFwd /\ inverse_operator = NoOperator
    /\ stc = NoStc /\ stc_fsaverage = NoStc /\ files = {}
    /\ label = {}
    /\ stcs = <<>> /\ running = FALSE /\ stc_evoked = NoStc
    /\ stc_evoked_label = NoStc /\ mean_stc = NoStc
    /\ flip = <<>> /\ label_mean = <<>> /\ label_mean_flip = <<>>
    /\ label_mean_evoked = <<>>
    /\ call = NoCall

At(c) == error = "" /\ pc <= Len(CellOrder) /\ CellOrder[pc] = c

\* a record of one library call: the names it read, the name it bound, and for
\* an application the channels of the data and of the operator
CallRec(fn, ins, out, data_chs, op_chs, ok) ==
    [fn |-> fn, ins |-> ins, out |-> out, data_chs |-> data_chs, op_chs |-> op_chs, ok |-> ok]

Done(names, rec) ==
    /\ pc' = pc + 1
    /\ error' = error
    /\ bound' = bound \cup names
    /\ calls' = Append(calls, rec)

NameError == /\ error' = "NameError"
             /\ UNCHANGED <<pc, bound, calls>>

\* a faulty variant: the operator itself is prepared
OperatorPreparedInPlace(inv, nave, lam, method) ==
    PrepareInverseOperator(inv, nave, lam, method).op

\* the operator object after a call that applied it: apply_inverse,
\* apply_inverse_raw and apply_inverse_epochs prepare a copy
OperatorAfterApply(inv, nave, lam, method) == inv

\* raw = mne.io.read_raw_fif(raw_fname)
ReadRaw ==
    /\ At("read_raw")
    /\ \E ds \in Datasets :
         /\ MakeEpochs(ds, FindEvents(ds)).selection # <<>>
         /\ raw' = ds
    /\ Done({"raw"}, CallRec("read_raw_fif", {}, "raw", <<>>, <<>>, TRUE))
    /\ UNCHANGED <<events, epochs, evoked, model, inverse_operator, est, label,
                   trial, means, eng>>

\* events = mne.find_events(raw, stim_channel='STI 014')
FindEventsCell ==
    /\ At("find_events")
    /\ IF {"raw"} \subseteq bound
       THEN /\ events' = FindEvents(raw)
            /\ Done({"events"}, CallRec("find_events", {"raw"}, "events", <<>>, <<>>, TRUE))
       ELSE NameError /\ UNCHANGED events
    /\ UNCHANGED <<raw, epochs, evoked, model, inverse_operator, est, label,
                   trial, means, eng>>

\* the epochs cell: bads, picks, mne.Epochs(...), epochs.drop_bad()
EpochsCell ==
    /\ At("epochs")
    /\ IF {"raw", "events"} \subseteq bound
       THEN /\ epochs' = MakeEpochs(raw, events)
            /\ Done({"epochs"}, CallRec("Epochs", {"raw", "events"}, "epochs", <<>>, <<>>, TRUE))
       ELSE NameError /\ UNCHANGED epochs
    /\ UNCHANGED <<raw, events, evoked, model, inverse_operator, est, label,
                   trial, means, eng>>

\* noise_cov = mne.compute_covariance(epochs, tmax=0., method=['shrunk', 'empirical'])
CovarianceCell ==
    /\ At("covariance")
    /\ IF {"epochs"} \subseteq bound
       THEN /\ \E m \in {"shrunk", "empirical"} : noise_cov' = ComputeCovariance(epochs, m)
            /\ Done({"noise_cov"},
                    CallRec("compute_covariance", {"epochs"}, "noise_cov", <<>>, <<>>, TRUE))
       ELSE NameError /\ UNCHANGED noise_cov
    /\ UNCHANGED <<sens, fwd, inverse_operator, est, label, trial, means, eng>>

\* evoked = epochs.average()
EvokedCell ==
    /\ At("evoked")
    /\ IF {"epochs"} \subseteq bound
       THEN /\ evoked' = Average(epochs)
            /\ Done({"evoked"}, CallRec("average", {"epochs"}, "evoked", <<>>, <<>>, TRUE))
       ELSE NameError /\ UNCHANGED evoked
    /\ UNCHANGED <<raw, events, epochs, model, inverse_operator, est, label,
                   trial, means, eng>>

\* the forward solution is read and restricted to MEG, the operator is made
\* from evoked.info, fwd and noise_cov with loose=0.2, depth=0.8, and written
MakeInverseCell ==
    /\ At("make_inverse")
    /\ IF {"evoked", "noise_cov"} \subseteq bound
       THEN /\ \E vs \in SrcChoices :
                 /\ fwd' = ReadForward(vs)
                 /\ inverse_operator' =
                      MakeInverseOperator(evoked.ch_names, Bads, ReadForward(vs),
                                          noise_cov, Loose, Depth)
            /\ files' = files \cup {"sample_audvis-meg-oct-6-inv.fif"}
            /\ pc' = pc + 1
            /\ error' = error
            /\ bound' = bound \cup {"fwd", "info", "inverse_operator"}
            /\ calls' = calls \o
                 << CallRec("read_forward_solution", {}, "fwd", <<>>, <<>>, TRUE),
                    CallRec("make_inverse_operator", {"evoked", "fwd", "noise_cov"},
                            "inverse_operator", <<>>, <<>>, TRUE) >>
       ELSE NameError /\ UNCHANGED <<fwd, inverse_operator, files>>
    /\ UNCHANGED <<sens, noise_cov, stc, stc_fsaverage, label, trial, means, eng>>

\* stc = apply_inverse(evoked, inverse_operator, lambda2, method="dSPM", pick_ori=None)
ApplyEvokedCell ==
    /\ At("apply_evoked")
    /\ IF {"evoked", "inverse_operator"} \subseteq bound
       THEN /\ stc' = ApplyInverse(evoked, inverse_operator, Lambda2, Method, "None")
            /\ inverse_operator' =
                 OperatorAfterApply(inverse_operator, evoked.nave, Lambda2, Method)
            /\ Done({"method", "lambda2", "stc"},
                    CallRec("apply_inverse", {"evoked", "inverse_operator"}, "stc",
                            evoked.ch_names, inverse_operator.ch_names, stc'.ok))
       ELSE NameError /\ UNCHANGED <<stc, inverse_operator>>
    /\ UNCHANGED <<sens, model, stc_fsaverage, files, label, trial, means, eng>>

\* stc.save('fixed_ori')
SaveStcCell ==
    /\ At("save_stc")
    /\ IF {"stc"} \subseteq bound
       THEN /\ files' = files \cup {"fixed_ori"}
            /\ Done({}, CallRec("save", {"stc"}, "file", <<>>, <<>>, TRUE))
       ELSE NameError /\ UNCHANGED files
    /\ UNCHANGED <<sens, model, inverse_operator, stc, stc_fsaverage, label,
                   trial, means, eng>>

\* morph = mne.compute_source_morph(stc, 'sample', 'fsaverage');
\* stc_fsaverage = morph.apply(stc); stc_fsaverage.save('fsaverage_dspm').
\* Only the time axis of the morphed estimate is kept here.
MorphCell ==
    /\ At("morph")
    /\ IF {"stc"} \subseteq bound
       THEN /\ stc_fsaverage' = [ stc EXCEPT !.vertices = <<>>, !.data = <<>> ]
            /\ files' = files \cup {"fsaverage_dspm"}
            /\ Done({"morph", "stc_fsaverage"},
                    CallRec("morph", {"stc"}, "stc_fsaverage", <<>>, <<>>, TRUE))
       ELSE NameError /\ UNCHANGED <<stc_fsaverage, files>>
    /\ UNCHANGED <<sens, model, inverse_operator, stc, label, trial, means, eng>>

\* label = mne.read_label(fname_label)
ReadLabelCell ==
    /\ At("read_label")
    /\ \E vs \in LabelChoices : label' = vs
    /\ Done({"label"}, CallRec("read_label", {}, "label", <<>>, <<>>, TRUE))
    /\ UNCHANGED <<sens, model, inverse_operator, est, trial, means, eng>>

\* start, stop = raw.time_as_index([0, 15]);
\* stc = apply_inverse_raw(raw, inverse_operator, lambda2, method, label, start, stop)
ApplyRawCell ==
    /\ At("apply_raw")
    /\ IF {"raw", "inverse_operator", "lambda2", "method", "label"} \subseteq bound
       THEN /\ stc' = ApplyInverseRaw(raw, inverse_operator, Lambda2, Method, InLabel(label),
                                      TimeAsIndex(raw, RawStartSec),
                                      TimeAsIndex(raw, RawStopSec))
            /\ inverse_operator' = OperatorAfterApply(inverse_operator, 1, Lambda2, Method)
            /\ Done({"start", "stop", "stc"},
                    CallRec("apply_inverse_raw", {"raw", "inverse_operator", "label"}, "stc",
                            RawChNames, inverse_operator.ch_names, stc'.ok))
       ELSE NameError /\ UNCHANGED <<stc, inverse_operator>>
    /\ UNCHANGED <<sens, model, stc_fsaverage, files, label, trial, means, eng>>

\* a faulty variant: nave left at its default
EpochsNaveDefault(ev) == 1

\* the nave the epochs call passes: nave=evoked.nave
EpochsNave(ev) == ev.nave

\* a faulty variant: the estimate goes to the first free place
PlaceInCompletionOrder(s, i, r) ==
    [ s EXCEPT ![CHOOSE j \in 1..Len(s) :
                   s[j] = Pending /\ \A k \in 1..(j - 1) : s[k] # Pending] = r ]

\* where the estimate of trial i goes in the list of results
PlaceResult(s, i, r) == [ s EXCEPT ![i] = r ]

\* stcs = apply_inverse_epochs(epochs, inverse_operator, lambda2, method, label,
\*                             pick_ori="normal", nave=evoked.nave): the call starts
ApplyEpochsStart ==
    /\ At("apply_epochs")
    /\ ~running
    /\ IF {"epochs", "evoked", "inverse_operator", "lambda2", "method", "label"} \subseteq bound
       THEN /\ stcs' = [ i \in 1..Len(epochs.data) |-> Pending ]
            /\ running' = TRUE
            /\ UNCHANGED ctl
       ELSE NameError /\ UNCHANGED <<stcs, running>>
    /\ UNCHANGED <<sens, model, inverse_operator, est, label, stc_evoked,
                   stc_evoked_label, mean_stc, means, eng>>

\* the estimate of one trial is computed; the trials are independent and may
\* complete in any order
ApplyEpochsTrial ==
    /\ At("apply_epochs")
    /\ running
    /\ \E i \in 1..Len(stcs) :
         /\ stcs[i] = Pending
         /\ stcs' = PlaceResult(stcs, i,
                      ApplyTrial(epochs, i, inverse_operator, Lambda2, Method,
                                 InLabel(label), "normal", EpochsNave(evoked)))
    /\ inverse_operator' =
         OperatorAfterApply(inverse_operator, EpochsNave(evoked), Lambda2, Method)
    /\ UNCHANGED <<ctl, sens, model, est, label, running, stc_evoked,
                   stc_evoked_label, mean_stc, means, eng>>

\* the rest of the cell, once every trial has its estimate:
\* stc_evoked = apply_inverse(evoked, inverse_operator, lambda2, method, pick_ori="normal");
\* stc_evoked_label = stc_evoked.in_label(label); mean_stc = np.sum(stcs) / len(stcs)
ApplyEpochsFinish ==
    /\ At("apply_epochs")
    /\ running
    /\ \A i \in 1..Len(stcs) : stcs[i] # Pending
    /\ running' = FALSE
    /\ stc_evoked' = ApplyInverse(evoked, inverse_operator, Lambda2, Method, "normal")
    /\ stc_evoked_label' = StcInLabel(stc_evoked', label)
    /\ mean_stc' = MeanStc(stcs)
    /\ inverse_operator' = OperatorAfterApply(inverse_operator, evoked.nave, Lambda2, Method)
    /\ pc' = pc + 1
    /\ error' = error
    /\ bound' = bound \cup {"stcs", "stc_evoked", "stc_evoked_label", "mean_stc"}
    /\ calls' = calls \o
         << CallRec("apply_inverse_epochs", {"epochs", "evoked", "inverse_operator", "label"},
                    "stcs", epochs.ch_names, inverse_operator.ch_names,
                    \A i \in 1..Len(stcs) : stcs[i].ok),
            CallRec("apply_inverse", {"evoked", "inverse_operator"}, "stc_evoked",
                    evoked.ch_names, inverse_operator.ch_names, stc_evoked'.ok),
            CallRec("in_label", {"stc_evoked", "label"}, "stc_evoked_label", <<>>, <<>>, TRUE),
            CallRec("mean", {"stcs"}, "mean_stc", <<>>, <<>>, TRUE) >>
    /\ UNCHANGED <<sens, model, est, label, stcs, means, eng>>

\* flip = mne.label_sign_flip(label, inverse_operator['src']);
\* label_mean, label_mean_flip, label_mean_evoked: means over the label's rows
LabelMeansCell ==
    /\ At("label_means")
    /\ IF {"label", "inverse_operator", "mean_stc", "stc_evoked_label"} \subseteq bound
       THEN /\ flip' = LabelSignFlip(label, inverse_operator.vertno)
            /\ label_mean' = RowMean(mean_stc.data, [ i \in 1..Len(mean_stc.data) |-> 1 ])
            /\ label_mean_flip' = RowMean(mean_stc.data, flip')
            /\ label_mean_evoked' =
                 RowMean(stc_evoked_label.data, [ i \in 1..Len(stc_evoked_label.data) |-> 1 ])
            /\ Done({"flip", "label_mean", "label_mean_flip", "label_mean_evoked"},
                    CallRec("label_sign_flip", {"label", "inverse_operator"}, "flip",
                            <<>>, <<>>, TRUE))
       ELSE NameError /\ UNCHANGED means
    /\ UNCHANGED <<sens, model, inverse_operator, est, label, trial, eng>>

Next ==
    \/ ReadRaw
    \/ FindEventsCell
    \/ EpochsCell
    \/ CovarianceCell
    \/ EvokedCell
    \/ MakeInverseCell
    \/ ApplyEvokedCell
    \/ SaveStcCell
    \/ MorphCell
    \/ ReadLabelCell
    \/ ApplyRawCell
    \/ ApplyEpochsStart
    \/ ApplyEpochsTrial
    \/ ApplyEpochsFinish
    \/ LabelMeansCell

Spec == Init /\ [][Next]_vars

(***************************************************************************)
(* The library calls of the notebook on their own: the operator is made    *)
(* with any loose, and then applied once, with any method, orientation,    *)
(* nave, regularisation, label and sample range, to the evoked response, a *)
(* trial of the epochs or the raw recording.                               *)
(***************************************************************************)
MaxStop == 2

LooseChoices  == {0, Loose, 10}
NaveChoices   == {1, 2, 3}
LambdaChoices == {Lambda2, Rat(1, 4)}

\* sample ranges <<start, stop>> at the start of the recording and across its end
RawRanges(ds) == { <<o + a, o + b>> : o \in {0, NTimes(ds) - 1}, a \in 0..MaxStop,
                                      b \in 0..MaxStop }

\* evoked.pick_channels(names): the evoked response restricted to some channels
PickChannels(ev, names) ==
    LET picks == SortedSeq({ i \in 1..Len(ev.ch_names) : ev.ch_names[i] \in names })
    IN  [ ev EXCEPT !.ch_names = Names(ev.ch_names, picks),
                    !.data = [ k \in 1..Len(picks) |-> ev.data[picks[k]] ] ]

\* the names bound once the cells up to the evoked response have run, the
\* forward solution is read and the label is read
EngineInit ==
    /\ pc = Len(CellOrder) + 1 /\ error = "" /\ calls = <<>>
    /\ bound = {"raw", "events", "epochs", "noise_cov", "evoked", "fwd", "label"}
    /\ raw \in { ds \in Datasets : ds.blink = {} /\ \A k \in 1..NEvents : ds.ids[k] = EventId }
    /\ events = FindEvents(raw)
    /\ epochs = MakeEpochs(raw, events)
    /\ evoked = Average(epochs)
    /\ noise_cov \in { ComputeCovariance(epochs, m) : m \in {"shrunk", "empirical"} }
    /\ fwd \in { ReadForward(vs) : vs \in SrcChoices }
    /\ label \in LabelChoices
    /\ inverse_operator = NoOperator
    /\ stc = NoStc /\ stc_fsaverage = NoStc /\ files = {}
    /\ stcs = <<>> /\ running = FALSE /\ stc_evoked = NoStc
    /\ stc_evoked_label = NoStc /\ mean_stc = NoStc
    /\ flip = <<>> /\ label_mean = <<>> /\ label_mean_flip = <<>>
    /\ label_mean_evoked = <<>>
    /\ call = NoCall

Built == inverse_operator # NoOperator

\* inverse_operator = make_inverse_operator(info, fwd, noise_cov, loose=loose, depth=0.8)
E_Make ==
    /\ ~Built
    /\ \E loose \in LooseChoices :
         inverse_operator' =
           MakeInverseOperator(evoked.ch_names, Bads, fwd, noise_cov, loose, Depth)
    /\ UNCHANGED <<ctl, sens, model, est, label, trial, means, eng>>

\* apply_inverse(evoked, inverse_operator, lambda2, method, pick_ori), on an
\* evoked response of any nave
E_ApplyEvoked ==
    /\ Built /\ call = NoCall
    /\ \E method \in Methods, pick_ori \in PickOris, nave \in NaveChoices,
          lam \in LambdaChoices :
         call' = [ fn |-> "apply_inverse", data_chs |-> evoked.ch_names,
                   method |-> method, pick_ori |-> pick_ori, lam |-> lam,
                   nave |-> nave, start |-> 0, stop |-> 0, restrict |-> NoLabel,
                   trial |-> 0,
                   out |-> ApplyInverse([evoked EXCEPT !.nave = nave], inverse_operator,
                                        lam, method, pick_ori) ]
    /\ inverse_operator' = inverse_operator
    /\ UNCHANGED <<ctl, sens, model, est, label, trial, means>>

\* apply_inverse on the evoked response restricted to one of its channels
E_ApplyPicked ==
    /\ Built /\ call = NoCall
    /\ \E c \in Range(evoked.ch_names) :
         LET ev == PickChannels(evoked, {c})
         IN  call' = [ fn |-> "apply_inverse", data_chs |-> ev.ch_names,
                       method |-> Method, pick_ori |-> "None", lam |-> Lambda2,
                       nave |-> ev.nave, start |-> 0, stop |-> 0, restrict |-> NoLabel,
                       trial |-> 0,
                       out |-> ApplyInverse(ev, inverse_operator, Lambda2, Method, "None") ]
    /\ inverse_operator' = inverse_operator
    /\ UNCHANGED <<ctl, sens, model, est, label, trial, means>>

\* apply_inverse_raw(raw, inverse_operator, lambda2, method, label, start, stop)
E_ApplyRaw ==
    /\ Built /\ call = NoCall
    /\ \E rg \in RawRanges(raw), restrict \in {NoLabel, InLabel(label)} :
         call' = [ fn |-> "apply_inverse_raw", data_chs |-> RawChNames,
                   method |-> Method, pick_ori |-> "None", lam |-> Lambda2,
                   nave |-> 1, start |-> rg[1], stop |-> rg[2], restrict |-> restrict,
                   trial |-> 0,
                   out |-> ApplyInverseRaw(raw, inverse_operator, Lambda2, Method,
                                           restrict, rg[1], rg[2]) ]
    /\ inverse_operator' = inverse_operator
    /\ UNCHANGED <<ctl, sens, model, est, label, trial, means>>

\* one trial of apply_inverse_epochs(epochs, inverse_operator, lambda2, method,
\* label, pick_ori, nave=evoked.nave)
E_ApplyEpoch ==
    /\ Built /\ call = NoCall
    /\ \E i \in 1..Len(epochs.data), pick_ori \in PickOris :
         call' = [ fn |-> "apply_inverse_epochs", data_chs |-> epochs.ch_names,
                   method |-> Method, pick_ori |-> pick_ori, lam |-> Lambda2,
                   nave |-> evoked.nave, start |-> 0, stop |-> 0,
                   restrict |-> InLabel(label), trial |-> i,
                   out |-> ApplyTrial(epochs, i, inverse_operator, Lambda2, Method,
                                      InLabel(label), pick_ori, evoked.nave) ]
    /\ inverse_operator' = inverse_operator
    /\ UNCHANGED <<ctl, sens, model, est, label, trial, means>>

EngineNext ==
    \/ E_Make
    \/ E_ApplyEvoked
    \/ E_ApplyPicked
    \/ E_ApplyRaw
    \/ E_ApplyEpoch

EngineSpec == EngineInit /\ [][EngineNext]_vars

(***************************************************************************)
(* Properties.                                                             *)
(***************************************************************************)

\* C1: in every run the stages happen in the forward order.  No cell stops
\* with a NameError; every name a call reads was bound by an earlier call;
\* the covariance is estimated before the operator is made and the operator
\* is made before every application (no application reads an operator that
\* was not made); and no call binds a name of an earlier stage from a name
\* of a later one (sensor data 0, covariance 1, operator 2, estimates 3,
\* files 4).
C1_ForwardOrder ==
    LET Applies == {"apply_inverse", "apply_inverse_raw", "apply_inverse_epochs"}
        FnStage(fn) == CASE fn = "compute_covariance" -> 1
                         [] fn = "make_inverse_operator" -> 2
                         [] fn \in Applies -> 3
                         [] OTHER -> 0
        NameStage(n) == CASE n \in {"raw", "events", "epochs", "evoked", "fwd", "label"} -> 0
                          [] n = "noise_cov" -> 1
                          [] n = "inverse_operator" -> 2
                          [] n = "file" -> 4
                          [] OTHER -> 3
    IN  /\ error = ""
        /\ \A j \in 1..Len(calls) :
             /\ \A n \in calls[j].ins :
                  /\ \E i \in 1..(j - 1) : calls[i].out = n
                  /\ NameStage(n) <= NameStage(calls[j].out)
             /\ calls[j].fn \in Applies =>
                  /\ "inverse_operator" \in calls[j].ins
                  /\ \E i \in 1..(j - 1) : calls[i].fn = "make_inverse_operator"
             /\ calls[j].fn = "make_inverse_operator" =>
                  /\ "noise_cov" \in calls[j].ins
                  /\ \E i \in 1..(j - 1) : calls[i].fn = "compute_covariance"
             /\ \A i \in 1..(j - 1) :
                  FnStage(calls[i].fn) > 0 /\ FnStage(calls[j].fn) > 0
                    => FnStage(calls[i].fn) <= FnStage(calls[j].fn)

\* a run that reached the end of the notebook, having applied the operator to
\* the evoked response, the raw recording and the epochs
C1_Witness ==
    /\ pc = Len(CellOrder) + 1
    /\ error = ""
    /\ \A fn \in {"compute_covariance", "make_inverse_operator", "apply_inverse",
                  "apply_inverse_raw", "apply_inverse_epochs"} :
         \E j \in 1..Len(calls) : calls[j].fn = fn /\ calls[j].ok

====
